---- MODULE Spec2Model ----
(***************************************************************************)
(* A model of the page pipeline of tauri-pdf-ocr: the persisted cache      *)
(* (CacheService), the recognition and translation clients (OcrService,    *)
(* TranslationService), the narration client (TtsService) and the          *)
(* TextExtraction component that drives them.                              *)
(*                                                                         *)
(* Specifications:                                                         *)
(*   SpecCache  the cache service under sequences of its API calls         *)
(*   SpecOcr    OcrService.extractTextFromImage under overlapping calls     *)
(*   SpecTr     TranslationService.translateStream under overlapping calls  *)
(*   SpecPipe   the TextExtraction component on an open document: page      *)
(*              turns, the automatic pipeline and prefetch, no narration    *)
(*   SpecRead   the same component with automatic translation off: page     *)
(*              turns, the automatic recognition and narration              *)
(*   SpecTts    TtsService under overlapping calls of speak and stop, with  *)
(*              the effect of TextExtraction that registers its listener    *)
(*   SpecDegraded  page turns and the automatic recognition when the        *)
(*              persisted store fails to open or fails in an operation      *)
(*   SpecState  StateManager.saveState under overlapping calls              *)
(*   SpecSave   saveOcrText and saveTranslatedText under overlapping calls  *)
(*   SpecForce  page turns, the automatic recognition and the OCR button    *)
(***************************************************************************)
EXTENDS Integers, Sequences, FiniteSets, TLC

(***************************************************************************)
(* Bounds of the model.                                                    *)
(***************************************************************************)
\* Date.now() is read from a clock that runs from 1 to MaxTime.
MaxTime == 2
\* The cache specification performs at most MaxOps operations.
MaxOps == 4
\* Pages of a document are 1..NumPages.
NumPages == 2
\* At most MaxOcrCalls calls of OcrService.extractTextFromImage are made.
MaxOcrCalls == 3
\* At most MaxTrCalls calls of TranslationService.translateStream are made.
MaxTrCalls == 3
\* The pipeline makes at most MaxPipeOcrCalls recognition calls and at most
\* MaxPipeTrCalls translation calls.
MaxPipeOcrCalls == 2
MaxPipeTrCalls == 2
\* The user turns the page at most MaxNavs times.
MaxNavs == 2
\* The user switches automatic translation at most MaxToggles times.
MaxToggles == 1
\* TtsService.speak is called at most MaxSpeaks times.
MaxSpeaks == 2
\* In the narration specification TtsService.stop is called at most MaxStops
\* times and the effect that calls TtsService.initialize runs at most
\* MaxInits times, the run at mount included.
MaxStops == 2
MaxInits == 2
\* With a failing store, at most MaxIoFailures cache reads and at most
\* MaxIoFailures cache writes of the pipeline fail.
MaxIoFailures == 1
\* StateManager.saveState is called at most MaxSaveStates times.
MaxSaveStates == 3
\* At most MaxCacheSaves cache saves are made while others are under way.
MaxCacheSaves == 3
\* Presses of the OCR button, and the recognition calls a run of SpecForce makes.
MaxForced == 2
MaxForceOcrCalls == 3

(***************************************************************************)
(* Program constants.                                                      *)
(***************************************************************************)
\* CacheService.config.maxSize as constructed: 10 * 1024 * 1024.
DefaultMaxSize == 10485760
\* The per-entry overhead counted for the timestamp.
TimestampSize == 8

\* Document fingerprints (MD5 digests; two short hex strings stand for them).
Md5s == {"a1", "b2"}
Pages == 1..NumPages
\* The pages the cache specification saves texts for.
CachePages == {1, 2}
\* Texts a caller hands to the cache: never empty (every caller guards its
\* save with a non-empty test), of two different lengths.
Texts == {"s", "wwwwwwwwwwww"}
\* The maxima setMaxSize is called with.
Budgets == {40}
\* The fingerprint of the document that is open in the pipeline.
FileMd5 == "a1"
\* An absent field of a cache entry (undefined in the source; the source
\* treats undefined and '' alike in every read).
NoText == ""

VARIABLES
    store,      \* CacheService.store: the persisted key -> CacheEntry map
    maxSize,    \* CacheService.config.maxSize
    now,        \* the clock Date.now() reads
    lastOp,     \* history: the kind of the cache operation that completed last
                \* ("save", "clear", "setMaxSize"; "clearFile" for a
                \* clearFileCache that deleted an entry; "none" at the start)
    evicted,    \* history: the entries the last save evicted, in eviction order
    opCount,    \* the number of cache operations performed so far
    written,    \* history: per (fingerprint, page) and kind, the value last put
                \* and not since evicted or cleared (NoText when there is none)
    ocrCalls,   \* the calls of OcrService.extractTextFromImage made so far, each
                \* with its position in the function and its AbortController
    ocrCurrent, \* OcrService.currentAbortController: the call that owns it, 0 for null
    trCalls,    \* the calls of TranslationService.translateStream made so far
    trCurrent,  \* TranslationService.currentAbortController: its call, 0 for null
    pageNumber,     \* App: the displayed page
    canvasRendered, \* App: the displayed page has been drawn on the canvas
    ui,             \* TextExtraction: its React state (textPage is history: the
                    \* page whose pipeline wrote extractedText last), the run
                    \* of the narration effect that is mounted (ttsRun) and
                    \* speakingStatusCallbackRef (callbackRef: the run whose
                    \* callback it holds, 0 for undefined)
    tasks,          \* the async functions that are suspended at an await
    tts,            \* TtsService: its static fields
    procs,          \* the narration processes that are playing, each with the
                    \* page that was displayed when its text was handed to speak
    hist,           \* history: counters, the readiness at the last speak,
                    \* what the last 'tts-finished' event invoked and the
                    \* page its narration was started on, the page
                    \* of the last recognition failure that was shown, and
                    \* the cache reads and writes that failed
    appState,       \* StateManager: the value persisted under 'app_state'
    stateSaves,     \* the calls of StateManager.saveState made so far, each
                    \* with its position in the function
    cacheSaves      \* the calls of saveOcrText and saveTranslatedText made so
                    \* far that are followed step by step (SpecSave)

cacheVars == <<store, maxSize, now, lastOp, evicted, written, opCount>>
ocrVars == <<ocrCalls, ocrCurrent>>
trVars == <<trCalls, trCurrent>>
saveVars == <<appState, stateSaves, cacheSaves>>
pipeVars == <<pageNumber, canvasRendered, ui, tasks, tts, procs, hist, saveVars>>
vars == <<pageNumber, canvasRendered, ui, tasks, tts, procs, hist, store, maxSize, now, lastOp, evicted, written, opCount,
          ocrCalls, ocrCurrent, trCalls, trCurrent, appState, stateSaves, cacheSaves>>

(***************************************************************************)
(* CacheService                                                            *)
(***************************************************************************)
\* `cache_${fileMd5}_${page}`
generateKey(fileMd5, page) == "cache_" \o fileMd5 \o "_" \o ToString(page)

AllKeys == {generateKey(m, p) : m \in Md5s, p \in Pages \cup CachePages}

\* key.startsWith(prefix), for the keys and prefixes of this model.
KeyTails ==
    {""} \cup {ToString(p) : p \in Pages \cup CachePages}
         \cup {m \o "_" \o ToString(p) : m \in Md5s, p \in Pages \cup CachePages}

StartsWith(key, prefix) == key \in {prefix \o tail : tail \in KeyTails}

\* The size getCurrentCacheSize and enforceSizeLimit count for one entry.
EntrySize(key, entry) ==
    Len(key) + Len(entry.ocrText) + Len(entry.translatedText) + TimestampSize

RECURSIVE SumSizes(_, _)
SumSizes(st, keys) ==
    IF keys = {} THEN 0
    ELSE LET k == CHOOSE x \in keys : TRUE
         IN  EntrySize(k, st[k]) + SumSizes(st, keys \ {k})

getCurrentCacheSize(st) ==
    SumSizes(st, {k \in DOMAIN st : StartsWith(k, "cache_")})

\* The orders store.keys() may list the keys of st in.
RECURSIVE KeyOrders(_)
KeyOrders(keys) ==
    IF keys = {} THEN {<<>>}
    ELSE UNION {{<<k>> \o rest : rest \in KeyOrders(keys \ {k})} : k \in keys}

\* A sort that puts the newest entry first (b.timestamp - a.timestamp).
RECURSIVE InsertNewestFirst(_, _, _)
InsertNewestFirst(sorted, k, st) ==
    IF sorted = <<>> THEN <<k>>
    ELSE IF st[Head(sorted)].timestamp >= st[k].timestamp
         THEN <<Head(sorted)>> \o InsertNewestFirst(Tail(sorted), k, st)
         ELSE <<k>> \o sorted

\* entries.sort((a, b) => a.timestamp - b.timestamp): a stable sort, oldest first.
RECURSIVE InsertByTimestamp(_, _, _)
InsertByTimestamp(sorted, k, st) ==
    IF sorted = <<>> THEN <<k>>
    ELSE IF st[Head(sorted)].timestamp <= st[k].timestamp
         THEN <<Head(sorted)>> \o InsertByTimestamp(Tail(sorted), k, st)
         ELSE <<k>> \o sorted

RECURSIVE SortByTimestamp(_, _)
SortByTimestamp(keys, st) ==
    IF keys = <<>> THEN <<>>
    ELSE InsertByTimestamp(SortByTimestamp(SubSeq(keys, 1, Len(keys) - 1), st),
                           keys[Len(keys)], st)

Remove(st, key) == [k \in DOMAIN st \ {key} |-> st[k]]

\* The loop of enforceSizeLimit over the sorted entries: delete the oldest
\* until the running size is within the limit.
RECURSIVE EvictLoop(_, _, _, _, _)
EvictLoop(st, sorted, currentSize, max, gone) ==
    IF sorted = <<>> \/ currentSize <= max
    THEN [store |-> st, evicted |-> gone]
    ELSE LET k == Head(sorted)
             itemSize == EntrySize(k, st[k])
         IN  EvictLoop(Remove(st, k), Tail(sorted), currentSize - itemSize, max,
                       Append(gone, [key |-> k, timestamp |-> st[k].timestamp,
                                     size |-> itemSize]))

\* An enforceSizeLimit that deletes the oldest entry only.
enforceSizeLimitOnce(st, max, keyOrder) ==
    LET currentSize == getCurrentCacheSize(st)
        sorted == SortByTimestamp(keyOrder, st)
    IN  IF currentSize > max /\ sorted # <<>>
        THEN EvictLoop(st, <<Head(sorted)>>, currentSize, max, <<>>)
        ELSE [store |-> st, evicted |-> <<>>]

\* enforceSizeLimit, with the keys listed in the order keyOrder.
enforceSizeLimit(st, max, keyOrder) ==
    LET currentSize == getCurrentCacheSize(st)
    IN  IF currentSize > max
        THEN EvictLoop(st, SortByTimestamp(keyOrder, st), currentSize, max, <<>>)
        ELSE [store |-> st, evicted |-> <<>>]

\* store.get(key) || { timestamp: Date.now() }
ExistingEntry(st, key, t) ==
    IF key \in DOMAIN st THEN st[key]
    ELSE [ocrText |-> NoText, translatedText |-> NoText, timestamp |-> t]

Put(st, key, entry) == [k \in DOMAIN st \cup {key} |-> IF k = key THEN entry ELSE st[k]]

\* An entry written without the spread of the existing one.
OcrEntryNoSpread(existing, text, t) ==
    [ocrText |-> text, translatedText |-> NoText, timestamp |-> t]

\* The entry saveOcrText writes: { ...existingEntry, ocrText: text, timestamp: Date.now() }
OcrEntry(existing, text, t) == [existing EXCEPT !.ocrText = text, !.timestamp = t]

\* The entry saveTranslatedText writes.
TranslatedEntry(existing, text, t) == [existing EXCEPT !.translatedText = text, !.timestamp = t]

\* entry?.ocrText || null
getOcrText(st, fileMd5, page) ==
    LET key == generateKey(fileMd5, page)
    IN  IF key \in DOMAIN st THEN st[key].ocrText ELSE NoText

\* entry?.translatedText || null
getTranslatedText(st, fileMd5, page) ==
    LET key == generateKey(fileMd5, page)
    IN  IF key \in DOMAIN st THEN st[key].translatedText ELSE NoText

\* A clearFileCache that deletes every key.
EveryKey(st, fileMd5) == DOMAIN st

\* The keys clearFileCache deletes.
FileKeys(st, fileMd5) == {k \in DOMAIN st : StartsWith(k, "cache_" \o fileMd5 \o "_")}

\* The history of values put, after the keys in gone have left the store.
Forget(w, gone) ==
    [mp \in DOMAIN w |-> IF generateKey(mp[1], mp[2]) \in gone
                         THEN [ocr |-> NoText, tr |-> NoText]
                         ELSE w[mp]]

EvictedKeys(ev) == {ev[i].key : i \in 1..Len(ev)}

\* Date.now() advances between two operations, or does not.  Only the order
\* of the timestamps matters, so the first operation reads the clock at 1;
\* after the last operation nothing reads it.
Tick ==
    /\ opCount > 0 /\ opCount < MaxOps
    /\ now < MaxTime /\ now' = now + 1
    /\ UNCHANGED <<store, maxSize, lastOp, evicted, written, opCount>>

\* The key orders enforceSizeLimit may meet on st: it lists the keys only when
\* the size is over the limit, and then only the order among entries of equal
\* timestamp changes what the stable sort returns.
SortedOrders(st, max) ==
    IF getCurrentCacheSize(st) > max
    THEN {SortByTimestamp(o, st) : o \in KeyOrders(DOMAIN st)}
    ELSE {<<>>}

saveOcrText(fileMd5, page, text) ==
    LET key == generateKey(fileMd5, page)
        newEntry == OcrEntry(ExistingEntry(store, key, now), text, now)
        saved == Put(store, key, newEntry)
    IN  \E keyOrder \in SortedOrders(saved, maxSize) :
            LET res == enforceSizeLimit(saved, maxSize, keyOrder)
            IN  /\ store' = res.store
                /\ evicted' = res.evicted
                /\ written' = Forget([written EXCEPT ![<<fileMd5, page>>].ocr = text],
                                     EvictedKeys(res.evicted))
                /\ lastOp' = "save"
                /\ UNCHANGED <<maxSize, now>>

saveTranslatedText(fileMd5, page, text) ==
    LET key == generateKey(fileMd5, page)
        newEntry == TranslatedEntry(ExistingEntry(store, key, now), text, now)
        saved == Put(store, key, newEntry)
    IN  \E keyOrder \in SortedOrders(saved, maxSize) :
            LET res == enforceSizeLimit(saved, maxSize, keyOrder)
            IN  /\ store' = res.store
                /\ evicted' = res.evicted
                /\ written' = Forget([written EXCEPT ![<<fileMd5, page>>].tr = text],
                                     EvictedKeys(res.evicted))
                /\ lastOp' = "save"
                /\ UNCHANGED <<maxSize, now>>

clearFileCache(fileMd5) ==
    /\ store' = [k \in DOMAIN store \ FileKeys(store, fileMd5) |-> store[k]]
    /\ written' = Forget(written, FileKeys(store, fileMd5))
    /\ evicted' = <<>>
    /\ lastOp' = IF FileKeys(store, fileMd5) = {} THEN "clear" ELSE "clearFile"
    /\ UNCHANGED <<maxSize, now>>

clearAllCache ==
    /\ store' = [k \in {x \in DOMAIN store : ~StartsWith(x, "cache_")} |-> store[k]]
    /\ written' = Forget(written, {x \in DOMAIN store : StartsWith(x, "cache_")})
    /\ evicted' = <<>>
    /\ lastOp' = "clear"
    /\ UNCHANGED <<maxSize, now>>

setMaxSize(newMax) ==
    /\ maxSize' = newMax
    /\ evicted' = <<>>
    /\ lastOp' = "setMaxSize"
    /\ UNCHANGED <<store, now, written>>

InitCache ==
    /\ store = << >>
    /\ maxSize = DefaultMaxSize
    /\ now = 1
    /\ lastOp = "none"
    /\ evicted = <<>>
    /\ written = [mp \in Md5s \X CachePages |-> [ocr |-> NoText, tr |-> NoText]]

InitServices ==
    /\ ocrCalls = <<>>
    /\ ocrCurrent = 0
    /\ trCalls = <<>>
    /\ trCurrent = 0

\* No callback is set in TtsService before the first handleSpeak or stopSpeak.
NoCallback == [kind |-> "none", page |-> 0]

\* What a 'tts-finished' event invoked: the listeners that passed their
\* test (each calls the status callbacks and the auto-turn callback), and
\* the status callbacks of a mounted effect that were called.
NothingInvoked == [passes |-> 0, status |-> 0]

InitUi ==
    [extractedText |-> NoText, textPage |-> 0, loading |-> FALSE,
     error |-> "none", translating |-> FALSE, ready |-> FALSE,
     autoOcr |-> TRUE, autoTranslate |-> FALSE,
     isSpeaking |-> FALSE, autoSpeaking |-> FALSE,
     ttsRun |-> 1, callbackRef |-> 1]

InitHist ==
    [navs |-> 0, toggles |-> 0, speaks |-> 0, speakReady |-> TRUE,
     pids |-> 0, finishes |-> 0, stops |-> 0, inits |-> 1,
     lastFinish |-> NothingInvoked, finishedPage |-> 0, ocrFailed |-> 0,
     getFailures |-> 0, putFailures |-> 0,
     forced |-> 0, drawn |-> 0]

\* The component as mounted on an open document, before its first page is
\* drawn: the useState initial values, and the static fields of TtsService
\* once the narration effect of the mount has registered its listener and
\* its status callback.
InitPipe ==
    /\ pageNumber = 1
    /\ canvasRendered = FALSE
    /\ ui = InitUi
    /\ tasks = <<>>
    /\ tts = [isSpeaking |-> FALSE, pid |-> 0, callback |-> NoCallback,
              listeners |-> 1, statusCallbacks |-> <<1>>]
    /\ procs = {}
    /\ hist = InitHist

\* The fields of AppState that the viewer (pageNumber) and the text panel
\* (textPanelFontSize, autoTranslateEnabled) persist.
StateFields == {"pageNumber", "textPanelFontSize", "autoTranslateEnabled"}

\* Nothing is persisted under 'app_state' yet (0 stands for a field that
\* was never saved: loadState fills it from DEFAULT_STATE), and no save is
\* under way.
InitSaves ==
    /\ appState = [f \in StateFields |-> 0]
    /\ stateSaves = <<>>
    /\ cacheSaves = <<>>

Init == InitCache /\ opCount = 0 /\ InitServices /\ InitPipe /\ InitSaves

\* One more cache operation, while the bound allows.
CountOp == opCount < MaxOps /\ opCount' = opCount + 1

CacheSaveOcr == CountOp /\ \E m \in Md5s, p \in CachePages, t \in Texts : saveOcrText(m, p, t)
CacheSaveTranslated == CountOp /\ \E m \in Md5s, p \in CachePages, t \in Texts : saveTranslatedText(m, p, t)
CacheClearFile == CountOp /\ \E m \in Md5s : clearFileCache(m)
CacheClearAll == CountOp /\ clearAllCache
CacheSetMaxSize == CountOp /\ \E b \in Budgets : setMaxSize(b)

NextCache ==
    \/ Tick /\ UNCHANGED <<ocrVars, trVars, pipeVars>>
    \/ CacheSaveOcr /\ UNCHANGED <<ocrVars, trVars, pipeVars>>
    \/ CacheSaveTranslated /\ UNCHANGED <<ocrVars, trVars, pipeVars>>
    \/ CacheClearFile /\ UNCHANGED <<ocrVars, trVars, pipeVars>>
    \/ CacheClearAll /\ UNCHANGED <<ocrVars, trVars, pipeVars>>
    \/ CacheSetMaxSize /\ UNCHANGED <<ocrVars, trVars, pipeVars>>

SpecCache == Init /\ [][NextCache]_vars

(***************************************************************************)
(* OcrService and TranslationService: one static AbortController each.     *)
(* The transport (fetch, response.json) honours the signal it was given:   *)
(* once the signal is aborted the pending step rejects with an AbortError. *)
(***************************************************************************)
\* What the recognition provider reads on the image of page p.
OcrTextOf(p) == "ocr" \o ToString(p)
\* data.choices[0]?.message?.content || '无法提取文字'
OcrFallback == "no-text-extracted"
OcrContent(content) == IF content = NoText THEN OcrFallback ELSE content

\* The translation the provider gives of a text.
TranslationOf(text) == "tr(" \o text \o ")"

\* A new call leaves the previous controller as it is.
AbortNothing(calls, current) == calls

\* if (this.currentAbortController) this.currentAbortController.abort()
AbortCurrent(calls, current) ==
    IF current # 0
    THEN [calls EXCEPT ![current].aborted = TRUE,
                       ![current].abortedAt = calls[current].stage]
    ELSE calls

\* finally: the controller is cleared only when it is still this call's.
ClearIfCurrent(current, i) == IF current = i THEN 0 ELSE current

\* A call has resolved: it returned or threw.
Resolved(call) == call.stage \in {"returned", "threw"}

\* OcrService.extractTextFromImage up to its first await (getSettings).
\* The new state of <<ocrCalls, ocrCurrent>>.
OcrBegin(calls, current, image) ==
    [calls |-> Append(AbortCurrent(calls, current),
                      [stage |-> "settings", aborted |-> FALSE, abortedAt |-> "none",
                       image |-> image, result |-> NoText, outcome |-> "pending",
                       delivered |-> FALSE]),
     current |-> Len(calls) + 1]

\* The call i ends: return or throw, then finally.
OcrEnd(i, outcome, result) ==
    /\ ocrCalls' = [ocrCalls EXCEPT ![i].stage = IF outcome = "failed" THEN "threw"
                                                 ELSE "returned",
                                    ![i].outcome = outcome,
                                    ![i].result = result]
    /\ ocrCurrent' = ClearIfCurrent(ocrCurrent, i)

\* getSettings resolves or throws; on success fetch is called with the signal.
OcrSettingsLoaded(i) ==
    /\ ocrCalls[i].stage = "settings"
    /\ \/ /\ ~ocrCalls[i].aborted
          /\ ocrCalls' = [ocrCalls EXCEPT ![i].stage = "fetch"]
          /\ UNCHANGED ocrCurrent
       \/ /\ ocrCalls[i].aborted          \* fetch on an aborted signal: AbortError, return ''
          /\ OcrEnd(i, "cancelled", NoText)
       \/ OcrEnd(i, "failed", NoText)     \* settings missing: throw

\* The request resolves with a response, or rejects.
OcrFetchDone(i) ==
    /\ ocrCalls[i].stage = "fetch"
    /\ IF ocrCalls[i].aborted
       THEN OcrEnd(i, "cancelled", NoText)
       ELSE \/ /\ ocrCalls' = [ocrCalls EXCEPT ![i].stage = "json"]   \* response.ok
               /\ UNCHANGED ocrCurrent
            \/ OcrEnd(i, "failed", NoText)   \* !response.ok, or a transport error

\* response.json() resolves, or rejects on the aborted signal.
OcrJsonDone(i) ==
    /\ ocrCalls[i].stage = "json"
    /\ IF ocrCalls[i].aborted
       THEN OcrEnd(i, "cancelled", NoText)
       ELSE \E content \in {OcrTextOf(ocrCalls[i].image), NoText} :
                OcrEnd(i, "text", OcrContent(content))

OcrStep ==
    \E i \in 1..Len(ocrCalls) : OcrSettingsLoaded(i) \/ OcrFetchDone(i) \/ OcrJsonDone(i)

\* A caller calls OcrService.extractTextFromImage with the image of a page.
OcrCall ==
    /\ Len(ocrCalls) < MaxOcrCalls
    /\ \E p \in Pages :
          LET b == OcrBegin(ocrCalls, ocrCurrent, p)
          IN  ocrCalls' = b.calls /\ ocrCurrent' = b.current

NextOcr ==
    \/ OcrCall /\ UNCHANGED <<cacheVars, trVars, pipeVars>>
    \/ OcrStep /\ UNCHANGED <<cacheVars, trVars, pipeVars>>

SpecOcr == Init /\ [][NextOcr]_vars

\* TranslationService.translateStream up to its first await (getSettings).
TrBegin(calls, current, text) ==
    [calls |-> Append(AbortCurrent(calls, current),
                      [stage |-> "settings", aborted |-> FALSE, abortedAt |-> "none",
                       text |-> text, chunks |-> <<>>, result |-> NoText,
                       outcome |-> "pending", responded |-> FALSE]),
     current |-> Len(calls) + 1]

\* A reasoning block, as a provider emits it before its answer.
ThinkBlock == "<think>reasoning</think>"

\* What the provider streams in answer to a text: its reasoning, then the
\* translation.
ProviderReply(text) == ThinkBlock \o TranslationOf(text)

\* A translateStream that returns what the provider streamed, as it came.
ReturnedRaw(reply) == reply

\* What translateStream returns once fetch has resolved with the
\* provider's response: '' (line 159), whatever the response streams.
ReturnedText(reply) == NoText

\* The call i ends: return or throw, then finally.
TrEnd(i, outcome, responded) ==
    /\ trCalls' = [trCalls EXCEPT ![i].stage = IF outcome = "empty" THEN "returned"
                                               ELSE "threw",
                                  ![i].outcome = outcome,
                                  ![i].result = IF outcome = "empty"
                                                THEN ReturnedText(ProviderReply(trCalls[i].text))
                                                ELSE NoText,
                                  ![i].responded = responded]
    /\ trCurrent' = ClearIfCurrent(trCurrent, i)

\* getSettings resolves or throws; on success fetch is called with the signal.
TrSettingsLoaded(i) ==
    /\ trCalls[i].stage = "settings"
    /\ \/ /\ ~trCalls[i].aborted
          /\ trCalls' = [trCalls EXCEPT ![i].stage = "fetch"]
          /\ UNCHANGED trCurrent
       \/ /\ trCalls[i].aborted          \* AbortError: throw new Error('Request canceled')
          /\ TrEnd(i, "cancelled", FALSE)
       \/ TrEnd(i, "failed", FALSE)      \* settings missing: throw

\* The request resolves with the provider's streaming response, or rejects.
\* On a response the function aborts its own controller and returns ''
\* (lines 154-159); nothing after that return is reached.
TrFetchDone(i) ==
    /\ trCalls[i].stage = "fetch"
    /\ IF trCalls[i].aborted
       THEN TrEnd(i, "cancelled", FALSE)
       ELSE \/ TrEnd(i, "empty", TRUE)     \* a response arrived: abort, return ''
            \/ TrEnd(i, "failed", FALSE)   \* a transport error: throw

TrStep == \E i \in 1..Len(trCalls) : TrSettingsLoaded(i) \/ TrFetchDone(i)

\* A caller calls TranslationService.translateStream with a text.
TrCall ==
    /\ Len(trCalls) < MaxTrCalls
    /\ \E p \in Pages :
          LET b == TrBegin(trCalls, trCurrent, OcrTextOf(p))
          IN  trCalls' = b.calls /\ trCurrent' = b.current

NextTr ==
    \/ TrCall /\ UNCHANGED <<cacheVars, ocrVars, pipeVars>>
    \/ TrStep /\ UNCHANGED <<cacheVars, ocrVars, pipeVars>>

SpecTr == Init /\ [][NextTr]_vars

C6_EvictsOldestFirst ==
    (lastOp = "save" /\ evicted # <<>>) =>
        /\ \A k \in DOMAIN store : \A i \in 1..Len(evicted) :
               store[k].timestamp >= evicted[i].timestamp
        /\ \A i \in 1..Len(evicted) :
               evicted[i].timestamp <= evicted[Len(evicted)].timestamp
        /\ getCurrentCacheSize(store) + evicted[Len(evicted)].size > maxSize
        /\ getCurrentCacheSize(store) <= maxSize

\* A save evicted an entry strictly older than every retained one, and two
\* entries were retained.
C6_Witness ==
    /\ lastOp = "save"
    /\ evicted # <<>>
    /\ Cardinality(DOMAIN store) >= 2
    /\ \A k \in DOMAIN store : store[k].timestamp > evicted[Len(evicted)].timestamp

\* C7: for every fingerprint, page and kind, a get returns exactly the value
\* last put under that key and kind, as long as the entry was not evicted or
\* cleared since; a put of the other kind for the same page leaves it.
C7_PutThenGet ==
    \A mp \in DOMAIN written :
        /\ written[mp].ocr # NoText =>
               getOcrText(store, mp[1], mp[2]) = written[mp].ocr
        /\ written[mp].tr # NoText =>
               getTranslatedText(store, mp[1], mp[2]) = written[mp].tr

\* A page holds both kinds, put one after the other with different values,
\* and another fingerprint holds the same page.
C7_Witness ==
    \E mp \in DOMAIN written, other \in DOMAIN written :
        /\ written[mp].ocr # NoText
        /\ written[mp].tr # NoText
        /\ written[mp].ocr # written[mp].tr
        /\ other[1] # mp[1] /\ other[2] = mp[2]
        /\ written[other].ocr # NoText
        /\ written[other].ocr # written[mp].ocr

(***************************************************************************)
(* Claims about the recognition client, checked under SpecOcr.             *)
(***************************************************************************)
OcrInFlight == {i \in 1..Len(ocrCalls) : ~Resolved(ocrCalls[i])}

RECURSIVE Concat(_)
Concat(chunks) == IF chunks = <<>> THEN "" ELSE Head(chunks) \o Concat(Tail(chunks))

\* C3: when a call for B starts before the call for A has resolved, A is
\* aborted, returns no text and gets no chunk; B, once the provider has
\* answered it and nothing superseded it, has returned the translation of
\* B, delivered in its chunks.
C3_OnlyLatestTranslationDelivered ==
    \A i \in 1..Len(trCalls) :
        /\ (i < Len(trCalls) /\ ~Resolved(trCalls[i])) => trCalls[i].aborted
        /\ trCalls[i].aborted =>
               trCalls[i].result = NoText /\ trCalls[i].chunks = <<>>
        /\ (trCalls[i].responded /\ ~trCalls[i].aborted) =>
               /\ trCalls[i].result = TranslationOf(trCalls[i].text)
               /\ Concat(trCalls[i].chunks) = trCalls[i].result

(***************************************************************************)
(* The TextExtraction component, App's page state and TtsService.          *)
(*                                                                         *)
(* A handler or an effect is an operator from the state it starts in to    *)
(* the state it leaves: w is the state being written, c the render whose   *)
(* closure the handler reads (its props and state values).  An async       *)
(* function is a task that is suspended at an await; one action takes it   *)
(* from one await to the next.  Every action ends with the effects that    *)
(* React runs for the values it changed.                                   *)
(*                                                                         *)
(* A page always has drawn content, the document stays open, the 'tts-     *)
(* finished' listener and the speaking-status callback are registered      *)
(* (their registration is the subject of SpecTts), autoOcrEnabled keeps    *)
(* its initial value, and translatingPage stays -1: no onChunk callback    *)
(* is ever called (TrFetchDone).  What saveState persists is the subject   *)
(* of SpecState and is left out here.                                      *)
(***************************************************************************)
World ==
    [page |-> pageNumber, rendered |-> canvasRendered, ui |-> ui,
     tasks |-> tasks, tts |-> tts, hist |-> hist]

NewTask(kind, pc, page) ==
    [kind |-> kind, pc |-> pc, page |-> page, av |-> FALSE,
     call |-> 0, text |-> NoText, pid |-> 0, image |-> 0]

Without(seq, k) == SubSeq(seq, 1, k - 1) \o SubSeq(seq, k + 1, Len(seq))

\* The suspended functions have no order among them: tasks lists them by
\* the await they are at, then by page, call and process.
PcRank(pc) ==
    CASE pc = "ocrLookup" -> 1 [] pc = "ocrWait" -> 2 [] pc = "trLookup" -> 3
      [] pc = "trWait" -> 4 [] pc = "pfOcrLookup" -> 5 [] pc = "pfOcrWait" -> 6
      [] pc = "pfTrLookup" -> 7 [] pc = "pfTrWait" -> 8 [] pc = "stopping" -> 9
      [] pc = "forcedClear" -> 11 [] pc = "forcedWait" -> 12
      [] OTHER -> 10
TaskRank(t) ==
    PcRank(t.pc) * 1000 + t.page * 100 + t.call * 10 + t.pid + t.image
        + (IF t.av THEN 5000 ELSE 0) + (IF t.kind = "speak" THEN 50000 ELSE 0)
RECURSIVE InsertTask(_, _)
InsertTask(seq, t) ==
    IF seq = <<>> THEN <<t>>
    ELSE IF TaskRank(t) <= TaskRank(Head(seq)) THEN <<t>> \o seq
    ELSE <<Head(seq)>> \o InsertTask(Tail(seq), t)
RECURSIVE SortTasks(_)
SortTasks(seq) == IF seq = <<>> THEN <<>> ELSE InsertTask(SortTasks(Tail(seq)), Head(seq))

\* A call whose result its caller has taken: nothing reads it again.
SpentCall(call) ==
    [call EXCEPT !.aborted = FALSE, !.abortedAt = "none", !.result = NoText,
                 !.outcome = "spent", !.stage = "returned"]

\* TtsService.stop up to its await: nothing when nothing is being spoken.
TtsStopBegin(w) ==
    IF w.tts.isSpeaking /\ w.tts.pid # 0
    THEN [w EXCEPT !.tasks = Append(@, [NewTask("stop", "stopping", 0)
                                           EXCEPT !.pid = w.tts.pid])]
    ELSE w

\* TtsService.speak up to its first await: stop() when something is being
\* spoken, getSettings otherwise.
TtsSpeakBegin(w, text) ==
    LET t == [NewTask("speak", "starting", w.page) EXCEPT !.text = text]
    IN  IF w.tts.isSpeaking /\ w.tts.pid # 0
        THEN [w EXCEPT !.tasks = Append(@, [t EXCEPT !.pc = "stopping",
                                                     !.pid = w.tts.pid])]
        ELSE [w EXCEPT !.tasks = Append(@, t)]

NoopCallback == [kind |-> "noop", page |-> 0]

\* if (!autoTriggered) setIsCurrentlyAutoSpeaking(false)
ClearAutoSpeaking(w, autoTriggered) ==
    IF autoTriggered THEN w ELSE [w EXCEPT !.ui.autoSpeaking = FALSE]

\* if (isSpeaking) { TtsService.stop(); setIsSpeaking(false) }
StopIfSpeaking(w, c) ==
    IF c.ui.isSpeaking
    THEN [w EXCEPT !.ui.isSpeaking = FALSE,
                   !.tasks = TtsStopBegin(w).tasks]
    ELSE w

SetCallback(w, callback) == [w EXCEPT !.tts.callback = callback]

stopSpeak(w, c, autoTriggered) ==
    StopIfSpeaking(SetCallback(ClearAutoSpeaking(w, autoTriggered), NoopCallback), c)

\* handleSpeak from the test of the text on: an error when there is none;
\* otherwise the flags, and TtsService.speak up to its first await.  hist
\* records the readiness flag at the call of speak.
SpeakText(w, c) ==
    IF c.ui.extractedText = NoText
    THEN [w EXCEPT !.ui.error = "no text to read"]
    ELSE [w EXCEPT !.ui.isSpeaking = TRUE,
                   !.ui.autoSpeaking = TRUE,
                   !.hist.speaks = @ + 1,
                   !.hist.speakReady = c.ui.ready,
                   !.tasks = TtsSpeakBegin(w, c.ui.extractedText).tasks]

\* handleSpeak up to its await.  The callback it sets closes over the page
\* of the render c.
handleSpeak(w, c, autoTriggered) ==
    SpeakText(SetCallback(stopSpeak(ClearAutoSpeaking(w, autoTriggered), c, TRUE),
                          [kind |-> "turn", page |-> c.page]),
              c)

\* prefetchNextPage up to its first await (cacheService.getOcrText).
prefetchNextPage(w, c) ==
    IF c.page >= NumPages THEN w
    ELSE [w EXCEPT !.tasks = Append(@, NewTask("prefetch", "pfOcrLookup", c.page + 1))]

\* The async function of the automatic-recognition effect up to its first
\* await: extractText(true, ...) sets loading, clears the error, and awaits
\* cacheService.getOcrText.
StartAutoRun(w, c) ==
    [w EXCEPT !.ui.loading = TRUE, !.ui.error = "none",
              !.tasks = Append(@, [NewTask("auto", "ocrLookup", c.page)
                                      EXCEPT !.av = c.ui.autoTranslate])]

\* useEffect [translating, autoTranslateEnabled]
TranslationIdleEffect(old, c, w) ==
    IF /\ (c.ui.translating # old.ui.translating
             \/ c.ui.autoTranslate # old.ui.autoTranslate)
       /\ ~c.ui.translating /\ c.ui.autoTranslate
    THEN prefetchNextPage([w EXCEPT !.ui.ready = TRUE], c)
    ELSE w

\* useEffect [pageOcrTranslationReady]
ReadyEffect(old, c, w) ==
    IF c.ui.ready # old.ui.ready /\ c.ui.ready /\ c.ui.autoSpeaking
    THEN handleSpeak(w, c, TRUE)
    ELSE w

\* A page-change effect that stops the narration and leaves the registered
\* callback in place.
PageEffectKeepsCallback(old, c, w) ==
    IF c.page # old.page THEN StopIfSpeaking(w, c) ELSE w

\* useEffect [pageNumber]
PageEffect(old, c, w) ==
    IF c.page # old.page THEN stopSpeak(w, c, TRUE) ELSE w

\* useEffect [canvasRendered, pageNumber, autoOcrEnabled, autoTranslateEnabled]
AutoOcrEffect(old, c, w) ==
    IF /\ (c.rendered # old.rendered \/ c.page # old.page
             \/ c.ui.autoOcr # old.ui.autoOcr
             \/ c.ui.autoTranslate # old.ui.autoTranslate)
       /\ c.ui.autoOcr /\ c.rendered
    THEN StartAutoRun([w EXCEPT !.ui.ready = FALSE], c)
    ELSE w

\* The effects of one render c that follows the render old, in the order
\* of their declaration.
EffectPass(old, c) ==
    AutoOcrEffect(old, c,
        PageEffect(old, c,
            ReadyEffect(old, c,
                TranslationIdleEffect(old, c, c))))

\* The state the effects change is rendered again, until no effect runs.
RECURSIVE Flush(_, _)
Rerender(c, a) ==
    IF a.page = c.page /\ a.rendered = c.rendered /\ a.ui = c.ui
    THEN a
    ELSE Flush(c, a)
Flush(old, c) == Rerender(c, EffectPass(old, c))

CommitWorld(f) ==
    /\ f.hist.speaks <= MaxSpeaks
    /\ pageNumber' = f.page
    /\ canvasRendered' = f.rendered
    /\ ui' = f.ui
    /\ tasks' = SortTasks(f.tasks)
    /\ tts' = f.tts
    /\ hist' = f.hist
    /\ UNCHANGED saveVars

\* The state w a handler leaves becomes the state, after its effects.
Commit(w) == CommitWorld(Flush(World, w))

\* A call has resolved and the function that awaits it has not resumed: the
\* continuation runs before any other event is handled.
ContinuationPending ==
    \E k \in 1..Len(tasks) :
        \/ tasks[k].pc \in {"ocrWait", "pfOcrWait", "forcedWait"}
              /\ Resolved(ocrCalls[tasks[k].call])
        \/ tasks[k].pc \in {"trWait", "pfTrWait"} /\ Resolved(trCalls[tasks[k].call])

\* cacheService.saveOcrText of the pipeline, on the open document.
PipeSaveOcr(p, text) ==
    LET key == generateKey(FileMd5, p)
        saved == Put(store, key, OcrEntry(ExistingEntry(store, key, now), text, now))
    IN  \E keyOrder \in SortedOrders(saved, maxSize) :
            store' = enforceSizeLimit(saved, maxSize, keyOrder).store

\* App.goNext and goPrev, as the buttons allow them.
goNext ==
    /\ ~ContinuationPending
    /\ pageNumber < NumPages /\ hist.navs < MaxNavs
    /\ Commit([World EXCEPT !.rendered = FALSE, !.page = pageNumber + 1,
                            !.hist.navs = @ + 1])
    /\ UNCHANGED <<procs, cacheVars, ocrVars, trVars>>

goPrev ==
    /\ ~ContinuationPending
    /\ pageNumber > 1 /\ hist.navs < MaxNavs
    /\ Commit([World EXCEPT !.rendered = FALSE, !.page = pageNumber - 1,
                            !.hist.navs = @ + 1])
    /\ UNCHANGED <<procs, cacheVars, ocrVars, trVars>>

\* App's render effect has drawn the displayed page.
RenderDone ==
    /\ ~ContinuationPending
    /\ ~canvasRendered
    /\ Commit([World EXCEPT !.rendered = TRUE, !.hist.drawn = pageNumber])
    /\ UNCHANGED <<procs, cacheVars, ocrVars, trVars>>

\* The user switches automatic translation.
ToggleAutoTranslate ==
    /\ ~ContinuationPending
    /\ hist.toggles < MaxToggles
    /\ Commit([World EXCEPT !.ui.autoTranslate = ~@, !.hist.toggles = @ + 1])
    /\ UNCHANGED <<procs, cacheVars, ocrVars, trVars>>

\* The read/stop button, enabled when there is a text.
ClickRead ==
    /\ ~ContinuationPending
    /\ ui.extractedText # NoText /\ ~ui.isSpeaking
    /\ Commit(handleSpeak(World, World, FALSE))
    /\ UNCHANGED <<procs, cacheVars, ocrVars, trVars>>

ClickStop ==
    /\ ~ContinuationPending
    /\ ui.extractedText # NoText /\ ui.isSpeaking
    /\ Commit(stopSpeak(World, World, FALSE))
    /\ UNCHANGED <<procs, cacheVars, ocrVars, trVars>>

\* An automatic run that translates whatever extractText returned.
AfterExtractAlwaysTranslates(w, k, ocrText) ==
    IF w.tasks[k].av
    THEN [w EXCEPT !.ui.translating = TRUE, !.ui.error = "none",
                   !.tasks[k].pc = "trLookup", !.tasks[k].text = ocrText]
    ELSE [w EXCEPT !.ui.ready = TRUE, !.tasks = Without(@, k)]

\* The automatic run after extractText has returned ocrText: translateText
\* up to its first await when translation is on and there is a text, the
\* readiness flag otherwise.
AfterExtract(w, k, ocrText) ==
    IF w.tasks[k].av /\ ocrText # NoText
    THEN [w EXCEPT !.ui.translating = TRUE, !.ui.error = "none",
                   !.tasks[k].pc = "trLookup", !.tasks[k].text = ocrText]
    ELSE [w EXCEPT !.ui.ready = TRUE, !.tasks = Without(@, k)]

\* An extractText that never reads the cache.
CachedOcrIgnored(p) == NoText

\* What extractText(true, ...) finds in the cache for its page.
CachedOcr(p) == getOcrText(store, FileMd5, p)

\* extractText resumes after cacheService.getOcrText: on a hit it shows the
\* cached text and returns it; on a miss it calls the recognition client.
AutoOcrLookup(k) ==
    LET t == tasks[k]
        cached == CachedOcr(t.page)
    IN  /\ ~ContinuationPending
        /\ t.pc = "ocrLookup"
        /\ IF cached # NoText
           THEN /\ Commit(AfterExtract([World EXCEPT !.ui.extractedText = cached,
                                                     !.ui.textPage = t.page,
                                                     !.ui.loading = FALSE],
                                       k, cached))
                /\ UNCHANGED <<ocrVars>>
           ELSE /\ Len(ocrCalls) < MaxPipeOcrCalls
                /\ LET b == OcrBegin(ocrCalls, ocrCurrent, t.page)
                   IN  /\ ocrCalls' = b.calls
                       /\ ocrCurrent' = b.current
                       /\ Commit([World EXCEPT !.tasks[k].pc = "ocrWait",
                                               !.tasks[k].call = b.current])
        /\ UNCHANGED <<procs, cacheVars, trVars>>

\* extractText resumes after OcrService.extractTextFromImage has resolved:
\* a text is saved and shown (the save and the setState calls that follow
\* it are one step), '' is returned as it is, an error is shown.
AutoOcrDone(k) ==
    LET t == tasks[k]
        call == ocrCalls[t.call]
    IN  /\ t.pc = "ocrWait"
        /\ Resolved(call)
        /\ ocrCalls' = [ocrCalls EXCEPT ![t.call] = [SpentCall(@) EXCEPT !.delivered = TRUE]]
        /\ IF call.outcome = "text" /\ call.result # NoText
           THEN /\ PipeSaveOcr(t.page, call.result)
                /\ Commit(AfterExtract([World EXCEPT !.ui.extractedText = call.result,
                                                     !.ui.textPage = t.page,
                                                     !.ui.loading = FALSE],
                                       k, call.result))
           ELSE /\ UNCHANGED store
                /\ IF call.outcome = "failed"
                   THEN Commit(AfterExtract([World EXCEPT !.ui.error = "ocr failed",
                                                          !.ui.loading = FALSE,
                                                          !.hist.ocrFailed = t.page],
                                            k, NoText))
                   ELSE Commit(AfterExtract([World EXCEPT !.ui.loading = FALSE],
                                            k, NoText))
        /\ UNCHANGED <<procs, maxSize, now, lastOp, evicted, written, opCount,
                       ocrCurrent, trVars>>

\* translateText resumes after cacheService.getTranslatedText.
AutoTrLookup(k) ==
    LET t == tasks[k]
        cached == getTranslatedText(store, FileMd5, t.page)
    IN  /\ ~ContinuationPending
        /\ t.pc = "trLookup"
        /\ IF cached # NoText
           THEN /\ Commit([World EXCEPT !.ui.translating = FALSE,
                                        !.ui.extractedText = cached,
                                        !.ui.textPage = t.page,
                                        !.ui.ready = TRUE,
                                        !.tasks = Without(@, k)])
                /\ UNCHANGED <<trVars>>
           ELSE /\ Len(trCalls) < MaxPipeTrCalls
                /\ LET b == TrBegin(trCalls, trCurrent, t.text)
                   IN  /\ trCalls' = b.calls
                       /\ trCurrent' = b.current
                       /\ Commit([World EXCEPT !.tasks[k].pc = "trWait",
                                               !.tasks[k].call = b.current])
        /\ UNCHANGED <<procs, cacheVars, ocrVars>>

\* What translateText's catch writes for an error thrown by translateStream:
\* err !== 'Request cancelled' compares an Error with a string, so every
\* error is shown, with its message.
TranslateErrorShown(outcome) ==
    IF outcome = "cancelled" THEN "Request canceled" ELSE "translate failed"

\* translateText resumes after TranslationService.translateStream has
\* resolved; the automatic run then sets the readiness flag.
AutoTrDone(k) ==
    LET t == tasks[k]
        call == trCalls[t.call]
    IN  /\ t.pc = "trWait"
        /\ Resolved(call)
        /\ IF call.stage = "returned"
           THEN Commit([World EXCEPT !.ui.translating = FALSE,
                                     !.ui.ready = TRUE,
                                     !.tasks = Without(@, k)])
           ELSE Commit([World EXCEPT !.ui.error = TranslateErrorShown(call.outcome),
                                     !.ui.ready = TRUE,
                                     !.tasks = Without(@, k)])
        /\ trCalls' = [trCalls EXCEPT ![t.call] = SpentCall(@)]
        /\ UNCHANGED <<procs, cacheVars, ocrVars, trCurrent>>

\* A prefetch that shows its failure as the visible pipeline does.
PrefetchEndsWithError(w, k) ==
    [w EXCEPT !.ui.error = "prefetch failed", !.tasks = Without(@, k)]

\* prefetchNextPage returns, or its catch logs the error: nothing is set.
PrefetchEnds(w, k) == [w EXCEPT !.tasks = Without(@, k)]

\* prefetchNextPage resumes after cacheService.getOcrText for the next page:
\* on a hit it awaits getTranslatedText, on a miss it draws the page
\* off-screen and calls the recognition client.
PfOcrLookup(k) ==
    LET t == tasks[k]
        cached == getOcrText(store, FileMd5, t.page)
    IN  /\ ~ContinuationPending
        /\ t.pc = "pfOcrLookup"
        /\ IF cached # NoText
           THEN /\ Commit([World EXCEPT !.tasks[k].pc = "pfTrLookup",
                                        !.tasks[k].text = cached])
                /\ UNCHANGED <<ocrVars>>
           ELSE /\ Len(ocrCalls) < MaxPipeOcrCalls
                /\ LET b == OcrBegin(ocrCalls, ocrCurrent, t.page)
                   IN  /\ ocrCalls' = b.calls
                       /\ ocrCurrent' = b.current
                       /\ Commit([World EXCEPT !.tasks[k].pc = "pfOcrWait",
                                               !.tasks[k].call = b.current])
        /\ UNCHANGED <<procs, cacheVars, trVars>>

\* prefetchNextPage resumes after the recognition call: a text is saved and
\* handed to the translation client; '' or an error ends the prefetch.
PfOcrDone(k) ==
    LET t == tasks[k]
        call == ocrCalls[t.call]
    IN  /\ t.pc = "pfOcrWait"
        /\ Resolved(call)
        /\ ocrCalls' = [ocrCalls EXCEPT ![t.call] = [SpentCall(@) EXCEPT !.delivered = TRUE]]
        /\ IF call.outcome = "text" /\ call.result # NoText
           THEN /\ Len(trCalls) < MaxPipeTrCalls
                /\ PipeSaveOcr(t.page, call.result)
                /\ LET b == TrBegin(trCalls, trCurrent, call.result)
                   IN  /\ trCalls' = b.calls
                       /\ trCurrent' = b.current
                       /\ Commit([World EXCEPT !.tasks[k].pc = "pfTrWait",
                                               !.tasks[k].call = b.current])
           ELSE /\ Commit(PrefetchEnds(World, k))
                /\ UNCHANGED <<store, trVars>>
        /\ UNCHANGED <<procs, maxSize, now, lastOp, evicted, written, opCount,
                       ocrCurrent>>

\* prefetchNextPage resumes after cacheService.getTranslatedText.
PfTrLookup(k) ==
    LET t == tasks[k]
        cached == getTranslatedText(store, FileMd5, t.page)
    IN  /\ ~ContinuationPending
        /\ t.pc = "pfTrLookup"
        /\ IF cached # NoText
           THEN /\ Commit(PrefetchEnds(World, k))
                /\ UNCHANGED <<trVars>>
           ELSE /\ Len(trCalls) < MaxPipeTrCalls
                /\ LET b == TrBegin(trCalls, trCurrent, t.text)
                   IN  /\ trCalls' = b.calls
                       /\ trCurrent' = b.current
                       /\ Commit([World EXCEPT !.tasks[k].pc = "pfTrWait",
                                               !.tasks[k].call = b.current])
        /\ UNCHANGED <<procs, cacheVars, ocrVars>>

\* prefetchNextPage resumes after translateStream: '' is not saved, an
\* error is logged.
PfTrDone(k) ==
    /\ tasks[k].pc = "pfTrWait"
    /\ Resolved(trCalls[tasks[k].call])
    /\ Commit(PrefetchEnds(World, k))
    /\ trCalls' = [trCalls EXCEPT ![tasks[k].call] = SpentCall(@)]
    /\ UNCHANGED <<procs, cacheVars, ocrVars, trCurrent>>

\* invoke('stop_speaking') resolves: the process is gone, and TtsService
\* forgets the process it tracks, whichever that is by now.  A speak that
\* awaited the stop goes on to getSettings and invoke('speak_text').
TtsStopDone(k) ==
    LET t == tasks[k]
    IN  /\ ~ContinuationPending
        /\ t.pc = "stopping"
        /\ procs' = {pr \in procs : pr.pid # t.pid}
        /\ Commit([World EXCEPT !.tts.isSpeaking = FALSE, !.tts.pid = 0,
                                !.tasks = IF t.kind = "speak"
                                          THEN [@ EXCEPT ![k].pc = "starting",
                                                         ![k].pid = 0]
                                          ELSE Without(@, k)])
        /\ UNCHANGED <<cacheVars, ocrVars, trVars>>

\* getSettings and invoke('speak_text') resolve (one step): with a process,
\* which TtsService tracks from then on, or without (handleSpeak shows the
\* error).  The process starts to play when the invoke resolves.
TtsSpeakStarted(k) ==
    LET t == tasks[k]
        pid == hist.pids + 1
    IN  /\ ~ContinuationPending
        /\ t.pc = "starting"
        /\ \/ /\ procs' = procs \cup {[pid |-> pid, page |-> t.page]}
              /\ Commit([World EXCEPT !.tts.isSpeaking = TRUE, !.tts.pid = pid,
                                      !.hist.pids = pid,
                                      !.tasks = Without(@, k)])
           \/ /\ procs' = procs
              /\ Commit([World EXCEPT !.ui.error = "speak failed",
                                      !.tasks = Without(@, k)])
        /\ UNCHANGED <<cacheVars, ocrVars, trVars>>

\* The callback handleSpeak set, when the narration has finished: goNext of
\* the render it closed over, when auto-reading and not on the last page.
autoTurnPageCallback(w) ==
    IF /\ w.tts.callback.kind = "turn"
       /\ w.ui.autoSpeaking
       /\ w.tts.callback.page < NumPages
    THEN [w EXCEPT !.rendered = FALSE, !.page = w.tts.callback.page + 1]
    ELSE w

\* The registered status callbacks whose effect is still mounted: the
\* others return without a setState (isMounted is false in their closure).
LiveCallbacks(w) ==
    {i \in 1..Len(w.tts.statusCallbacks) : w.tts.statusCallbacks[i] = w.ui.ttsRun}

\* this.speakingStatusCallbacks.forEach(callback => callback(false))
NotifyStatus(w) ==
    IF LiveCallbacks(w) = {} THEN w
    ELSE [w EXCEPT !.ui.isSpeaking = FALSE,
                   !.hist.lastFinish.status = @ + Cardinality(LiveCallbacks(w))]

\* One 'tts-finished' listener, for the process pid.
FinishedListener(w, pid) ==
    IF w.tts.pid = pid
    THEN autoTurnPageCallback(
             NotifyStatus([w EXCEPT !.tts.isSpeaking = FALSE, !.tts.pid = 0,
                                    !.hist.lastFinish.passes = @ + 1]))
    ELSE w

\* The event is handed to every listener that TtsService.initialize has
\* registered, one after the other.
RECURSIVE Listeners(_, _, _)
Listeners(w, pid, n) ==
    IF n = 0 THEN w ELSE Listeners(FinishedListener(w, pid), pid, n - 1)

\* A narration process ends by itself and 'tts-finished' is delivered: a
\* listener acts only for the process TtsService tracks.
TtsFinished ==
    \E pr \in procs :
        /\ ~ContinuationPending
        /\ procs' = procs \ {pr}
        /\ Commit(Listeners([World EXCEPT !.hist.finishes = @ + 1,
                                          !.hist.finishedPage = pr.page,
                                          !.hist.lastFinish = NothingInvoked],
                            pr.pid, tts.listeners))
        /\ UNCHANGED <<cacheVars, ocrVars, trVars>>

\* The pipeline without narration: the read button is never pressed.
NextPipe ==
    \/ goNext
    \/ goPrev
    \/ RenderDone
    \/ ToggleAutoTranslate
    \/ \E k \in 1..Len(tasks) : AutoOcrLookup(k)
    \/ \E k \in 1..Len(tasks) : AutoOcrDone(k)
    \/ \E k \in 1..Len(tasks) : AutoTrLookup(k)
    \/ \E k \in 1..Len(tasks) : AutoTrDone(k)
    \/ \E k \in 1..Len(tasks) : PfOcrLookup(k)
    \/ \E k \in 1..Len(tasks) : PfOcrDone(k)
    \/ \E k \in 1..Len(tasks) : PfTrLookup(k)
    \/ \E k \in 1..Len(tasks) : PfTrDone(k)
    \/ ~ContinuationPending /\ OcrStep /\ UNCHANGED <<cacheVars, trVars, pipeVars>>
    \/ ~ContinuationPending /\ TrStep /\ UNCHANGED <<cacheVars, ocrVars, pipeVars>>

SpecPipe == Init /\ [][NextPipe]_vars

\* Reading aloud with automatic translation off, as it is initially.
NextRead ==
    \/ goNext
    \/ goPrev
    \/ RenderDone
    \/ ClickRead
    \/ ClickStop
    \/ \E k \in 1..Len(tasks) : AutoOcrLookup(k)
    \/ \E k \in 1..Len(tasks) : AutoOcrDone(k)
    \/ \E k \in 1..Len(tasks) : TtsStopDone(k)
    \/ \E k \in 1..Len(tasks) : TtsSpeakStarted(k)
    \/ TtsFinished
    \/ ~ContinuationPending /\ OcrStep /\ UNCHANGED <<cacheVars, trVars, pipeVars>>

SpecRead == Init /\ [][NextRead]_vars

(***************************************************************************)
(* The pipeline on a store that fails.  CacheService.initialize catches    *)
(* the error of Store.load and tries again at the next call; every         *)
(* operation returns when the store is null and catches the errors of its  *)
(* own store calls.                                                        *)
(***************************************************************************)
\* A saveOcrText that lets the error of the store reach extractText, whose
\* catch shows it and returns ''.
SaveFailureRaised(w, k, text) ==
    AfterExtract([w EXCEPT !.ui.error = "cache failed", !.ui.loading = FALSE],
                 k, NoText)

\* extractText after a saveOcrText that failed: it has returned without
\* raising, so the text is shown and returned as after a save.
SaveFailureSwallowed(w, k, text) ==
    AfterExtract([w EXCEPT !.ui.extractedText = text,
                           !.ui.textPage = w.tasks[k].page,
                           !.ui.loading = FALSE],
                 k, text)

\* What saveOcrText can leave in the store when it fails: nothing (the
\* store is null, or get or set failed), or the entry without the eviction
\* (store.save failed after set).
FailedSaveStores(p, text) ==
    LET key == generateKey(FileMd5, p)
    IN  {store, Put(store, key, OcrEntry(ExistingEntry(store, key, now), text, now))}

\* extractText resumes after a cacheService.getOcrText that failed: it got
\* null, whatever the store holds, and calls the recognition client.
AutoOcrLookupUnavailable(k) ==
    /\ ~ContinuationPending
    /\ tasks[k].pc = "ocrLookup"
    /\ hist.getFailures < MaxIoFailures
    /\ Len(ocrCalls) < MaxPipeOcrCalls
    /\ ocrCalls' = OcrBegin(ocrCalls, ocrCurrent, tasks[k].page).calls
    /\ ocrCurrent' = Len(ocrCalls) + 1
    /\ Commit([World EXCEPT !.tasks[k].pc = "ocrWait",
                            !.tasks[k].call = Len(ocrCalls) + 1,
                            !.hist.getFailures = @ + 1])
    /\ UNCHANGED <<procs, cacheVars, trVars>>

\* extractText resumes after the recognition call has returned a text, and
\* the saveOcrText it awaits fails.
AutoOcrDoneUnsaved(k) ==
    /\ tasks[k].pc = "ocrWait"
    /\ ocrCalls[tasks[k].call].outcome = "text"
    /\ hist.putFailures < MaxIoFailures
    /\ ocrCalls' = [ocrCalls EXCEPT ![tasks[k].call] =
                                       [SpentCall(@) EXCEPT !.delivered = TRUE]]
    /\ store' \in FailedSaveStores(tasks[k].page, ocrCalls[tasks[k].call].result)
    /\ Commit(SaveFailureSwallowed([World EXCEPT !.hist.putFailures = @ + 1],
                                   k, ocrCalls[tasks[k].call].result))
    /\ UNCHANGED <<procs, maxSize, now, lastOp, evicted, written, opCount,
                   ocrCurrent, trVars>>

NextDegraded ==
    \/ goNext
    \/ goPrev
    \/ RenderDone
    \/ \E k \in 1..Len(tasks) : AutoOcrLookup(k)
    \/ \E k \in 1..Len(tasks) : AutoOcrLookupUnavailable(k)
    \/ \E k \in 1..Len(tasks) : AutoOcrDone(k)
    \/ \E k \in 1..Len(tasks) : AutoOcrDoneUnsaved(k)
    \/ ~ContinuationPending /\ OcrStep /\ UNCHANGED <<cacheVars, trVars, pipeVars>>

SpecDegraded == Init /\ [][NextDegraded]_vars

(***************************************************************************)
(* The OCR button: extractText(false, ...) of the render in which it is    *)
(* pressed.  cacheService.clearPageCache is called by extractText and is   *)
(* not among the methods of CacheService in the source; it is taken to     *)
(* delete the entry of its page, as the specification of the forced        *)
(* refresh has it.                                                         *)
(***************************************************************************)
\* cacheService.clearPageCache(fileMd5, pageNumber)
clearPageCache(st, fileMd5, page) == Remove(st, generateKey(fileMd5, page))

\* What canvasRef.current.toDataURL can give: the displayed page once it is
\* drawn; before that, the page drawn last, or nothing (0) when nothing is
\* drawn yet or the canvas was resized for the page to come.
CanvasImages == IF canvasRendered THEN {pageNumber} ELSE {hist.drawn, 0}

\* The OCR button, enabled while loading is false: extractText(false, ...)
\* up to its first await (clearPageCache).
ClickOcr ==
    /\ ~ContinuationPending
    /\ ~ui.loading /\ hist.forced < MaxForced
    /\ \E image \in CanvasImages :
          Commit([World EXCEPT !.ui.loading = TRUE, !.ui.error = "none",
                               !.hist.forced = @ + 1,
                               !.tasks = Append(@, [NewTask("forced", "forcedClear", pageNumber)
                                                       EXCEPT !.image = image])])
    /\ UNCHANGED <<procs, cacheVars, ocrVars, trVars>>

\* extractText(false, ...) resumes after clearPageCache and calls the
\* recognition client with the image taken at the press.
ForcedCleared(k) ==
    LET t == tasks[k]
        b == OcrBegin(ocrCalls, ocrCurrent, t.image)
    IN  /\ ~ContinuationPending
        /\ t.pc = "forcedClear"
        /\ Len(ocrCalls) < MaxForceOcrCalls
        /\ store' = clearPageCache(store, FileMd5, t.page)
        /\ ocrCalls' = b.calls
        /\ ocrCurrent' = b.current
        /\ Commit([World EXCEPT !.tasks[k].pc = "forcedWait",
                                !.tasks[k].call = b.current])
        /\ UNCHANGED <<procs, maxSize, now, lastOp, evicted, written, opCount, trVars>>

\* extractText(false, ...) has returned: nothing awaits its value.
ForcedEnds(w, k) == [w EXCEPT !.tasks = Without(@, k)]

\* extractText(false, ...) resumes after the recognition call has resolved:
\* a text is saved and shown, '' is returned as it is, an error is shown.
ForcedOcrDone(k) ==
    LET t == tasks[k]
        call == ocrCalls[t.call]
    IN  /\ t.pc = "forcedWait"
        /\ Resolved(call)
        /\ ocrCalls' = [ocrCalls EXCEPT ![t.call] = [SpentCall(@) EXCEPT !.delivered = TRUE]]
        /\ IF call.outcome = "text" /\ call.result # NoText
           THEN /\ PipeSaveOcr(t.page, call.result)
                /\ Commit(ForcedEnds([World EXCEPT !.ui.extractedText = call.result,
                                                   !.ui.textPage = t.page,
                                                   !.ui.loading = FALSE],
                                     k))
           ELSE /\ UNCHANGED store
                /\ IF call.outcome = "failed"
                   THEN Commit(ForcedEnds([World EXCEPT !.ui.error = "ocr failed",
                                                        !.ui.loading = FALSE],
                                          k))
                   ELSE Commit(ForcedEnds([World EXCEPT !.ui.loading = FALSE], k))
        /\ UNCHANGED <<procs, maxSize, now, lastOp, evicted, written, opCount,
                       ocrCurrent, trVars>>

\* Automatic recognition and the OCR button, with automatic translation off.
NextForce ==
    \/ goNext
    \/ goPrev
    \/ RenderDone
    \/ ClickOcr
    \/ \E k \in 1..Len(tasks) : ForcedCleared(k)
    \/ \E k \in 1..Len(tasks) : ForcedOcrDone(k)
    \/ \E k \in 1..Len(tasks) : AutoOcrLookup(k)
    \/ \E k \in 1..Len(tasks) : AutoOcrDone(k)
    \/ ~ContinuationPending /\ OcrStep /\ UNCHANGED <<cacheVars, trVars, pipeVars>>

SpecForce == Init /\ [][NextForce]_vars

(***************************************************************************)
(* TtsService by itself: any caller's speak and stop, a stop that fails,   *)
(* and the effect of TextExtraction that calls TtsService.initialize and   *)
(* registers the speaking-status callback.                                 *)
(***************************************************************************)
\* speakingStatusCallbacks.splice(indexOf(callback), 1)
RECURSIVE RemoveFirst(_, _)
RemoveFirst(seq, x) ==
    IF seq = <<>> THEN <<>>
    ELSE IF Head(seq) = x THEN Tail(seq)
    ELSE <<Head(seq)>> \o RemoveFirst(Tail(seq), x)

\* The cleanup of the narration effect: isMounted = false is the end of the
\* run (ttsRun moves on), and the callback the ref holds is unregistered.
CleanupTtsEffect(w) ==
    IF w.ui.callbackRef # 0
    THEN [w EXCEPT !.tts.statusCallbacks = RemoveFirst(@, w.ui.callbackRef)]
    ELSE w

\* The narration effect up to its await of TtsService.initialize().
StartTtsEffect(w, run) ==
    [w EXCEPT !.ui.ttsRun = run,
              !.hist.inits = run,
              !.tasks = Append(@, [NewTask("init", "listening", 0) EXCEPT !.call = run])]

\* A dependency of the narration effect has changed: the cleanup of the
\* mounted run, then the next run.
TtsEffectRerun ==
    /\ hist.inits < MaxInits
    /\ Commit(StartTtsEffect(CleanupTtsEffect(World), hist.inits + 1))
    /\ UNCHANGED <<procs, cacheVars, ocrVars, trVars>>

\* listen('tts-finished', ...) resolves: one more listener; the effect then
\* stores its callback in the ref and registers it.
TtsInitDone(k) ==
    /\ tasks[k].pc = "listening"
    /\ Commit([World EXCEPT !.tts.listeners = @ + 1,
                            !.tts.statusCallbacks = Append(@, tasks[k].call),
                            !.ui.callbackRef = tasks[k].call,
                            !.tasks = Without(@, k)])
    /\ UNCHANGED <<procs, cacheVars, ocrVars, trVars>>

\* A caller calls TtsService.speak.
TtsSpeak ==
    /\ hist.speaks < MaxSpeaks
    /\ Commit([World EXCEPT !.hist.speaks = @ + 1,
                            !.tasks = TtsSpeakBegin(World, OcrTextOf(pageNumber)).tasks])
    /\ UNCHANGED <<procs, cacheVars, ocrVars, trVars>>

\* A caller calls TtsService.stop while something is being spoken (the call
\* returns at once otherwise).
TtsStop ==
    /\ hist.stops < MaxStops
    /\ tts.isSpeaking /\ tts.pid # 0
    /\ Commit([World EXCEPT !.hist.stops = @ + 1,
                            !.tasks = TtsStopBegin(World).tasks])
    /\ UNCHANGED <<procs, cacheVars, ocrVars, trVars>>

\* invoke('stop_speaking') rejects: the catch logs the error, the fields of
\* TtsService and the process stay as they are.  A speak that awaited the
\* stop goes on.
TtsStopFailed(k) ==
    /\ tasks[k].pc = "stopping"
    /\ Commit([World EXCEPT !.tasks = IF tasks[k].kind = "speak"
                                      THEN [@ EXCEPT ![k].pc = "starting",
                                                     ![k].pid = 0]
                                      ELSE Without(@, k)])
    /\ UNCHANGED <<procs, cacheVars, ocrVars, trVars>>

\* TtsService as loaded, and the component as mounted: the narration effect
\* has run and awaits TtsService.initialize(); no listener is registered.
InitTts ==
    /\ InitCache /\ opCount = 0 /\ InitServices
    /\ pageNumber = 1
    /\ canvasRendered = FALSE
    /\ ui = [InitUi EXCEPT !.callbackRef = 0]
    /\ tasks = <<[NewTask("init", "listening", 0) EXCEPT !.call = 1]>>
    /\ tts = [isSpeaking |-> FALSE, pid |-> 0, callback |-> NoCallback,
              listeners |-> 0, statusCallbacks |-> <<>>]
    /\ procs = {}
    /\ hist = InitHist
    /\ InitSaves

NextTts ==
    \/ TtsEffectRerun
    \/ TtsSpeak
    \/ TtsStop
    \/ \E k \in 1..Len(tasks) : TtsInitDone(k)
    \/ \E k \in 1..Len(tasks) : TtsStopDone(k)
    \/ \E k \in 1..Len(tasks) : TtsStopFailed(k)
    \/ \E k \in 1..Len(tasks) : TtsSpeakStarted(k)
    \/ TtsFinished

SpecTts == InitTts /\ [][NextTts]_vars

(***************************************************************************)
(* StateManager.saveState: initialize, loadState (store.get), the merge,   *)
(* store.set and store.save, each behind an await.  The store answers a    *)
(* get with the value it holds when it handles the get.  The value a call  *)
(* saves for its fields is the number of the call, so that the calls can   *)
(* be told apart.                                                          *)
(***************************************************************************)
\* App.goPrev and goNext: saveState({ pageNumber: newPageNumber })
ViewerUpdate(v) == [f \in {"pageNumber"} |-> v]

\* The persist effect of TextExtraction: the font and the auto flags.
PanelUpdate(v) == [f \in {"textPanelFontSize", "autoTranslateEnabled"} |-> v]

\* { ...currentState, ...state }
MergeState(current, updates) ==
    [f \in StateFields |-> IF f \in DOMAIN updates THEN updates[f] ELSE current[f]]

\* A component calls stateManager.saveState: the call runs up to its await
\* of loadState.
SaveStateCall ==
    /\ Len(stateSaves) < MaxSaveStates
    /\ \E updates \in {ViewerUpdate(Len(stateSaves) + 1),
                        PanelUpdate(Len(stateSaves) + 1)} :
           stateSaves' = Append(stateSaves,
                                [updates |-> updates, pc |-> "load",
                                 current |-> [f \in StateFields |-> 0]])
    /\ UNCHANGED <<appState, cacheSaves>>

\* loadState resolves with what the store holds; the call merges its
\* updates into it and awaits store.set.
StateLoaded(i) ==
    /\ stateSaves[i].pc = "load"
    /\ stateSaves' = [stateSaves EXCEPT ![i].current = appState, ![i].pc = "set"]
    /\ UNCHANGED <<appState, cacheSaves>>

\* store.set('app_state', newState) is handled; the call awaits store.save.
StateSet(i) ==
    /\ stateSaves[i].pc = "set"
    /\ appState' = MergeState(stateSaves[i].current, stateSaves[i].updates)
    /\ stateSaves' = [stateSaves EXCEPT ![i].pc = "save"]
    /\ UNCHANGED cacheSaves

\* store.save resolves: the call has completed.
StateSaved(i) ==
    /\ stateSaves[i].pc = "save"
    /\ stateSaves' = [stateSaves EXCEPT ![i].pc = "done"]
    /\ UNCHANGED <<appState, cacheSaves>>

NextState ==
    \/ SaveStateCall /\ UNCHANGED <<pageNumber, canvasRendered, ui, tasks, tts, procs, hist, cacheVars, ocrVars, trVars>>
    \/ \E i \in 1..Len(stateSaves) :
          StateLoaded(i) /\ UNCHANGED <<pageNumber, canvasRendered, ui, tasks, tts, procs, hist, cacheVars, ocrVars, trVars>>
    \/ \E i \in 1..Len(stateSaves) :
          StateSet(i) /\ UNCHANGED <<pageNumber, canvasRendered, ui, tasks, tts, procs, hist, cacheVars, ocrVars, trVars>>
    \/ \E i \in 1..Len(stateSaves) :
          StateSaved(i) /\ UNCHANGED <<pageNumber, canvasRendered, ui, tasks, tts, procs, hist, cacheVars, ocrVars, trVars>>

SpecState == Init /\ [][NextState]_vars

(***************************************************************************)
(* saveOcrText and saveTranslatedText step by step: store.get, the spread  *)
(* of the entry read, store.set, store.save and enforceSizeLimit, each     *)
(* behind an await.  The callers are the visible pipeline and the          *)
(* prefetch, on the open document.                                         *)
(***************************************************************************)
\* The text a caller saves for page p: what was recognized on it, or the
\* translation of that.
SavedText(kind, p) ==
    IF kind = "ocr" THEN OcrTextOf(p) ELSE TranslationOf(OcrTextOf(p))

\* A caller calls saveOcrText or saveTranslatedText: the call runs up to
\* its await of store.get.
CacheSaveCall ==
    /\ Len(cacheSaves) < MaxCacheSaves
    /\ \E kind \in {"ocr", "tr"}, p \in Pages :
           cacheSaves' = Append(cacheSaves,
                                [kind |-> kind, page |-> p, text |-> SavedText(kind, p),
                                 pc |-> "get",
                                 newEntry |-> ExistingEntry(<< >>, "", 0)])
    /\ UNCHANGED <<store, appState, stateSaves>>

\* store.get resolves with what the store holds; the call builds the new
\* entry from it and awaits store.set.
CacheSaveGot(i) ==
    LET c == cacheSaves[i]
        existingEntry == ExistingEntry(store, generateKey(FileMd5, c.page), now)
    IN  /\ c.pc = "get"
        /\ cacheSaves' = [cacheSaves EXCEPT
                             ![i].pc = "set",
                             ![i].newEntry = IF c.kind = "ocr"
                                             THEN OcrEntry(existingEntry, c.text, now)
                                             ELSE TranslatedEntry(existingEntry, c.text, now)]
        /\ UNCHANGED <<store, appState, stateSaves>>

\* store.set is handled, then store.save and enforceSizeLimit: the call
\* has completed.
CacheSaveSet(i) ==
    LET c == cacheSaves[i]
        saved == Put(store, generateKey(FileMd5, c.page), c.newEntry)
    IN  /\ c.pc = "set"
        /\ \E keyOrder \in SortedOrders(saved, maxSize) :
               store' = enforceSizeLimit(saved, maxSize, keyOrder).store
        /\ cacheSaves' = [cacheSaves EXCEPT ![i].pc = "done"]
        /\ UNCHANGED <<appState, stateSaves>>

NextSave ==
    \/ CacheSaveCall /\ UNCHANGED <<pageNumber, canvasRendered, ui, tasks, tts, procs, hist, maxSize, now, lastOp, evicted, written, opCount, ocrVars, trVars>>
    \/ \E i \in 1..Len(cacheSaves) :
          CacheSaveGot(i) /\ UNCHANGED <<pageNumber, canvasRendered, ui, tasks, tts, procs, hist, maxSize, now, lastOp, evicted, written, opCount, ocrVars, trVars>>
    \/ \E i \in 1..Len(cacheSaves) :
          CacheSaveSet(i) /\ UNCHANGED <<pageNumber, canvasRendered, ui, tasks, tts, procs, hist, maxSize, now, lastOp, evicted, written, opCount, ocrVars, trVars>>

SpecSave == Init /\ [][NextSave]_vars

(***************************************************************************)
(* Claims about the pipeline, checked under SpecPipe.                      *)
(***************************************************************************)
\* The texts the recognition of page p can give.
TextsOfPage(p) == {OcrTextOf(p), OcrFallback}

\* C1: a run of the pipeline that was started for a page which is no longer
\* displayed is discarded: whenever the visible text is written, it is
\* written by the pipeline of the displayed page, and the cache never holds
\* under a page's key the text recognized on another page.
C1_StaleRunDiscarded ==
    [][/\ (ui'.extractedText # ui.extractedText \/ ui'.textPage # ui.textPage)
            => ui'.textPage = pageNumber'
       /\ \A p \in Pages :
            getOcrText(store', FileMd5, p) \in TextsOfPage(p) \cup {NoText}]_vars

\* C4: a cancelled call reaches its caller unlike a result and unlike a
\* failure (recognition returns '', a result is never '', a failure throws;
\* translation throws with the message of a cancellation), and the pipeline
\* never shows an error because of a cancellation.
C4_CancellationIsNotAnError ==
    /\ \A i \in 1..Len(ocrCalls) :
          /\ ocrCalls[i].outcome = "cancelled"
                => ocrCalls[i].stage = "returned" /\ ocrCalls[i].result = NoText
          /\ ocrCalls[i].outcome = "text" => ocrCalls[i].result # NoText
          /\ ocrCalls[i].outcome = "failed" => ocrCalls[i].stage = "threw"
    /\ \A i \in 1..Len(trCalls) :
          trCalls[i].outcome \in {"cancelled", "failed"} => trCalls[i].stage = "threw"
    /\ ui.error # TranslateErrorShown("cancelled")

\* The runs that are at the cache lookup of extractText for page p.
LookupsAt(ts, p) ==
    Cardinality({k \in 1..Len(ts) : ts[k].pc = "ocrLookup" /\ ts[k].page = p})

\* C8: a run that finds no text in the cache for its page makes one
\* recognition call, and the text that call returns is stored under the
\* page; a run that finds a text shows it and makes no call; and no
\* recognition call, visible or prefetch, is begun for a page whose text is
\* in the cache.
C8_CacheHitSkipsProvider ==
    [][/\ \A j \in (Len(ocrCalls) + 1)..Len(ocrCalls') :
            getOcrText(store, FileMd5, ocrCalls'[j].image) = NoText
       /\ \A i \in 1..Len(ocrCalls) :
            (ocrCalls[i].outcome = "text" /\ ocrCalls'[i].delivered
               /\ ~ocrCalls[i].delivered)
            => getOcrText(store', FileMd5, ocrCalls[i].image) = ocrCalls[i].result
       /\ \A p \in Pages :
            LookupsAt(tasks', p) < LookupsAt(tasks, p)
            => IF getOcrText(store, FileMd5, p) # NoText
               THEN /\ Len(ocrCalls') = Len(ocrCalls)
                    /\ ui'.extractedText = getOcrText(store, FileMd5, p)
               ELSE Len(ocrCalls') = Len(ocrCalls) + 1]_vars

\* Page 1 was left and shown again, every run has ended, and one
\* recognition call was made in all: the later run took the stored text.
C8_Witness ==
    /\ hist.navs = 2 /\ pageNumber = 1 /\ canvasRendered
    /\ tasks = <<>>
    /\ Len(ocrCalls) = 1 /\ ocrCalls[1].delivered /\ ocrCalls[1].image = 1
    /\ ~ui.loading
    /\ ui.extractedText # NoText
    /\ ui.extractedText = getOcrText(store, FileMd5, 1)

(***************************************************************************)
(* Claims about reading aloud, checked under SpecRead.                     *)
(***************************************************************************)
\* C9: every call of TtsService.speak is made while the readiness flag of
\* the displayed page is true.
C9_SpeakOnlyWhenReady == hist.speaks > 0 => hist.speakReady

\* C10: when the narration of page p ends by itself while auto-reading and
\* p is not the last page, the displayed page becomes p + 1 in that step;
\* when not auto-reading, the page stays.
C10_FinishAdvancesOnce ==
    [][hist'.finishes # hist.finishes
         => \A pr \in procs \ procs' :
              IF ui.autoSpeaking
              THEN pr.page < NumPages => pageNumber' = pr.page + 1
              ELSE pageNumber' = pageNumber]_vars

\* The step is a press of the stop button: the component's speaking flag
\* falls without a page turn and without a 'tts-finished' event.
StopPressed ==
    /\ ui.isSpeaking /\ ~ui'.isSpeaking
    /\ hist'.navs = hist.navs /\ hist'.finishes = hist.finishes

\* The narrations TtsService.stop has been called for and not yet stopped.
BeingStopped(ts) == {ts[k].pid : k \in {j \in 1..Len(ts) : ts[j].pc = "stopping"}}

\* C11: a press of the stop button and a page turn by the user both leave
\* auto-reading and stop the narration that is playing: after the step the
\* auto-reading flag is off and every playing narration is being stopped.
C11_StopAndNavigationLeaveAutoReading ==
    [][(StopPressed \/ hist'.navs # hist.navs)
         => /\ ~ui'.autoSpeaking
            /\ \A pr \in procs' : pr.pid \in BeingStopped(tasks')]_vars

(***************************************************************************)
(* Claims about the narration client, checked under SpecTts.               *)
(***************************************************************************)
\* C12: every narration that ends by itself has its finished callbacks
\* invoked exactly once: one listener passes its test (and calls the
\* auto-turn callback once) and one status callback tells the component,
\* however many listeners TtsService.initialize has registered and whatever
\* calls of stop are under way.
C12_FinishedCallbackOncePerNarration ==
    hist.finishes > 0 => hist.lastFinish = [passes |-> 1, status |-> 1]

\* C13: at most one narration is playing, and it is the one whose process
\* identifier TtsService tracks.
C13_OneTrackedNarration ==
    /\ Cardinality(procs) <= 1
    /\ \A pr \in procs : tts.isSpeaking /\ tts.pid = pr.pid

TranslationTaken(k) ==
    /\ k \in 1..Len(tasks)
    /\ tasks[k].pc = "trWait"
    /\ trCalls[tasks[k].call].responded /\ ~trCalls[tasks[k].call].aborted
    /\ trCalls'[tasks[k].call].outcome = "spent"

\* C15 (checked under SpecPipe): when the provider has answered the
\* translation call of the displayed page and the call was not cancelled,
\* the step that takes its result leaves the translation of the page's text
\* in the cache under the page, and the readiness flag true.
C15_TranslationStoredAndReady ==
    [][\A k \in 1..Len(tasks) :
          (TranslationTaken(k) /\ tasks[k].page = pageNumber)
          => /\ getTranslatedText(store', FileMd5, tasks[k].page)
                   = TranslationOf(tasks[k].text)
             /\ ui'.ready]_vars

(***************************************************************************)
(* Claims about failures, checked under SpecPipe.                          *)
(***************************************************************************)
\* The step in which extractText of the visible run k catches the error of
\* its recognition call.
RecognitionFailureTaken(k) ==
    /\ k \in 1..Len(tasks)
    /\ tasks[k].pc = "ocrWait"
    /\ ocrCalls[tasks[k].call].outcome = "failed"
    /\ ocrCalls'[tasks[k].call].delivered

\* C16: the step in which a run takes the failure of its recognition call
\* shows the error, ends the run without a translation call and leaves the
\* cache as it was; and whenever a page has been drawn, after a failure as
\* at any other time, a run of its own starts for it.
C16_RecognitionFailureStopsTheRun ==
    [][/\ \A k \in 1..Len(tasks) :
            RecognitionFailureTaken(k)
            => /\ ui'.error = "ocr failed"
               /\ ~ui'.loading
               /\ tasks' = Without(tasks, k)
               /\ trCalls' = trCalls
               /\ store' = store
       /\ (canvasRendered' /\ ~canvasRendered)
            => \E j \in 1..Len(tasks') :
                   /\ tasks'[j].kind = "auto" /\ tasks'[j].pc = "ocrLookup"
                   /\ tasks'[j].page = pageNumber']_vars

\* Recognition failed for page 1 with automatic translation on; after the
\* page turn the run of page 2 recognized, stored and showed its text, and
\* nothing is stored for page 1.
C16_Witness ==
    /\ hist.ocrFailed = 1
    /\ ui.autoTranslate
    /\ pageNumber = 2 /\ ui.textPage = 2
    /\ ui.extractedText \in TextsOfPage(2)
    /\ getOcrText(store, FileMd5, 2) = ui.extractedText
    /\ generateKey(FileMd5, 1) \notin DOMAIN store

\* The number of times the task t is in ts.
Count(ts, t) == Cardinality({i \in 1..Len(ts) : ts[i] = t})

\* The step resumes a prefetch: one of the suspended prefetches has moved
\* on from its await or has ended.
PrefetchStep ==
    \E i \in 1..Len(tasks) :
        /\ tasks[i].kind = "prefetch"
        /\ Count(tasks', tasks[i]) < Count(tasks, tasks[i])

\* C17: no step of a prefetch (its cache lookups, its recognition call and
\* the save of its text, its translation call) changes the text, the
\* loading indicator or the error that are shown.
C17_PrefetchLeavesVisibleState ==
    [][PrefetchStep
         => /\ ui'.extractedText = ui.extractedText
            /\ ui'.textPage = ui.textPage
            /\ ui'.loading = ui.loading
            /\ ui'.error = ui.error]_vars

\* Page 1 is displayed with its own text and was never left; the prefetch
\* has recognized page 2, stored its text, and ended.
C17_Witness ==
    /\ hist.navs = 0 /\ pageNumber = 1
    /\ ui.extractedText \in TextsOfPage(1) /\ ui.textPage = 1
    /\ getOcrText(store, FileMd5, 2) \in TextsOfPage(2)
    /\ \A i \in 1..Len(tasks) : tasks[i].kind # "prefetch"

\* C18: no step of a prefetch sets the error that is shown, and a call of
\* the visible run that background work displaced reports no error.  While
\* the first page has not been left only one visible run translates, so
\* there the error of a cancellation can only come from the translation
\* call of a prefetch.
C18_BackgroundNeverSetsError ==
    [][/\ PrefetchStep => ui'.error = ui.error
       /\ hist'.navs = 0 => ui'.error # TranslateErrorShown("cancelled")]_vars

(***************************************************************************)
(* Claims about a failing store, checked under SpecDegraded.               *)
(***************************************************************************)
\* The suspended run k has moved on or ended in the step.
RunResumed(k) == Count(tasks', tasks[k]) < Count(tasks, tasks[k])

\* C19: a cache read that fails gives absent and no error: the run goes on
\* to recognize its page.  A cache write that fails raises nothing: the
\* run shows the text it has just recognized, clears the loading
\* indicator, shows no error and reaches readiness.
C19_FailingStoreDegradesToColdCache ==
    [][/\ hist'.getFailures > hist.getFailures
            => \E k \in 1..Len(tasks) :
                   /\ RunResumed(k) /\ tasks[k].pc = "ocrLookup"
                   /\ Len(ocrCalls') = Len(ocrCalls) + 1
                   /\ ocrCalls'[Len(ocrCalls')].image = tasks[k].page
                   /\ ui'.error = ui.error
       /\ hist'.putFailures > hist.putFailures
            => \E k \in 1..Len(tasks) :
                   /\ RunResumed(k) /\ tasks[k].pc = "ocrWait"
                   /\ ui'.extractedText = ocrCalls[tasks[k].call].result
                   /\ ui'.extractedText \in TextsOfPage(tasks[k].page)
                   /\ ui'.textPage = tasks[k].page
                   /\ ~ui'.loading
                   /\ ui'.error = ui.error
                   /\ ui'.ready]_vars

\* Page 1 was recognized and stored, left and shown again; the read of the
\* cache failed, so page 1 was recognized a second time; the write failed
\* too, and the new text is shown without an error.
C19_Witness ==
    /\ hist.getFailures = 1 /\ hist.putFailures = 1
    /\ hist.navs = 2 /\ pageNumber = 1 /\ tasks = <<>>
    /\ Len(ocrCalls) = 2
    /\ \A i \in 1..2 : ocrCalls[i].image = 1 /\ ocrCalls[i].delivered
    /\ ui.extractedText \in TextsOfPage(1) /\ ui.textPage = 1
    /\ ui.extractedText # getOcrText(store, FileMd5, 1)
    /\ getOcrText(store, FileMd5, 1) # NoText
    /\ ~ui.loading /\ ui.error = "none" /\ ui.ready

(***************************************************************************)
(* Claims about clearFileCache, checked under SpecCache.                   *)
(***************************************************************************)
\* C20: a step that is clearFileCache(F) leaves no entry of F under any
\* page, leaves every entry of every other fingerprint in the store with
\* the value it had, and a second clearFileCache(F) on the result would
\* delete nothing.
C20_ClearRemovesOnlyItsFingerprint ==
    [][\A F \in Md5s :
          clearFileCache(F)
          => /\ \A p \in Pages \cup CachePages :
                    generateKey(F, p) \notin DOMAIN store'
             /\ \A G \in Md5s \ {F} : \A p \in Pages \cup CachePages :
                    /\ generateKey(G, p) \in DOMAIN store
                          <=> generateKey(G, p) \in DOMAIN store'
                    /\ generateKey(G, p) \in DOMAIN store
                          => store'[generateKey(G, p)] = store[generateKey(G, p)]
             /\ [k \in DOMAIN store' \ FileKeys(store', F) |-> store'[k]] = store'
             /\ maxSize' = maxSize]_vars

\* A clearFileCache has just deleted the entries of one fingerprint, and an
\* entry of the other fingerprint, holding both kinds of text, is still
\* there.
C20_Witness ==
    /\ lastOp = "clearFile"
    /\ \E k \in DOMAIN store :
           store[k].ocrText # NoText /\ store[k].translatedText # NoText

(***************************************************************************)
(* Claims about the persisted application state, checked under SpecState.  *)
(***************************************************************************)
\* The latest call of saveState that set the field f, 0 when there is none.
LastSetter(f) ==
    IF \E i \in 1..Len(stateSaves) : f \in DOMAIN stateSaves[i].updates
    THEN CHOOSE i \in 1..Len(stateSaves) :
             /\ f \in DOMAIN stateSaves[i].updates
             /\ \A j \in (i + 1)..Len(stateSaves) : f \notin DOMAIN stateSaves[j].updates
    ELSE 0

\* C30: once every saveState call made has completed, overlapping ones
\* included, the persisted state holds for every field the value of the
\* most recent call that set the field.
C30_LatestSaveStateWins ==
    (\A i \in 1..Len(stateSaves) : stateSaves[i].pc = "done")
    => \A f \in StateFields :
           LastSetter(f) # 0 => appState[f] = stateSaves[LastSetter(f)].updates[f]

AwaitedCalls(ts, pc, p) ==
    {ts[k].call : k \in {j \in 1..Len(ts) : ts[j].pc = pc /\ ts[j].page = p}}

\* The calls of before that the step has cancelled.
NewlyAborted(before, after) ==
    {i \in 1..Len(before) : after[i].aborted /\ ~before[i].aborted}

\* The step begins the call that a function of after awaits at pc for page
\* p, and cancels a call that a function of ts awaited at victimPc for
\* page q.
Displaces(before, after, ts, pc, p, victimPc, q) ==
    /\ Len(after) > Len(before)
    /\ Len(after) \in AwaitedCalls(tasks', pc, p)
    /\ NewlyAborted(before, after) \cap AwaitedCalls(ts, victimPc, q) # {}

\* C29: a recognition or translation call that the prefetch begins for the
\* page after the displayed one cancels no call of the displayed page's
\* run, and a call of the displayed page's run cancels no call of that
\* prefetch.
C29_PathsDoNotCancelEachOther ==
    [][/\ ~Displaces(ocrCalls, ocrCalls', tasks, "pfOcrWait", pageNumber + 1,
                     "ocrWait", pageNumber)
       /\ ~Displaces(ocrCalls, ocrCalls', tasks, "ocrWait", pageNumber,
                     "pfOcrWait", pageNumber + 1)
       /\ ~Displaces(trCalls, trCalls', tasks, "pfTrWait", pageNumber + 1,
                     "trWait", pageNumber)
       /\ ~Displaces(trCalls, trCalls', tasks, "trWait", pageNumber,
                     "pfTrWait", pageNumber + 1)]_vars

(***************************************************************************)
(* Claims about the readiness flag, checked under SpecPipe.                *)
(***************************************************************************)
\* The automatic runs of the displayed page that have not ended: each is
\* at the cache lookup, the recognition or the translation of the page.
RunsOfDisplayedPage ==
    {k \in 1..Len(tasks) : tasks[k].kind = "auto" /\ tasks[k].page = pageNumber}

\* C23: while the displayed page has been drawn and a run of it is at its
\* cache lookup, recognition or translation, the readiness flag is false.
C23_NotReadyWhilePipelineRuns ==
    (canvasRendered /\ RunsOfDisplayedPage # {}) => ~ui.ready

(***************************************************************************)
(* Claims about the end of auto-reading, checked under SpecRead.           *)
(***************************************************************************)
\* The step delivers 'tts-finished' for the narration that TtsService
\* tracks, which was started on page p, while p is displayed.
TrackedFinishOn(p) ==
    /\ hist'.finishes # hist.finishes
    /\ pageNumber = p
    /\ \E pr \in procs \ procs' : pr.page = p /\ pr.pid = tts.pid

\* C24: when the narration of the last page ends by itself while
\* auto-reading, auto-reading is left and the page stays.
C24_LastPageEndsAutoReading ==
    [][(TrackedFinishOn(NumPages) /\ ui.autoSpeaking)
         => /\ ~ui'.autoSpeaking
            /\ pageNumber' = pageNumber]_vars

\* The step in which handleSpeak catches the error of the TtsService.speak
\* call k: no narration has started.
SpeakFailureTaken(k) ==
    /\ k \in 1..Len(tasks)
    /\ tasks[k].kind = "speak" /\ tasks[k].pc = "starting"
    /\ tasks' = Without(tasks, k)
    /\ procs' = procs /\ hist'.pids = hist.pids

\* C22: when a narration fails to start while auto-reading, the step that
\* takes the failure leaves auto-reading and clears the speaking
\* indicator.
C22_FailedStartEndsAutoReading ==
    [][\A k \in 1..Len(tasks) :
          (SpeakFailureTaken(k) /\ ui.autoSpeaking)
          => /\ ~ui'.autoSpeaking
             /\ ~ui'.isSpeaking]_vars

(***************************************************************************)
(* Claims about the auto-turn callback, checked under SpecRead.            *)
(***************************************************************************)
\* C26: TtsService holds one auto-turn callback; a callback that turns the
\* page is registered only for the displayed page (stop and every page
\* change replace it), and a 'tts-finished' event turns the page only
\* through the callback registered for the displayed page, to the page
\* after it.
C26_ReplacedCallbackNeverTurns ==
    [][/\ tts'.callback.kind = "turn" => tts'.callback.page = pageNumber'
       /\ (hist'.finishes # hist.finishes /\ pageNumber' # pageNumber)
            => /\ tts.callback = [kind |-> "turn", page |-> pageNumber]
               /\ pageNumber' = pageNumber + 1]_vars

\* Auto-reading was started on page 1 and never stopped; the user turned
\* to page 2; the narration of page 1 then ended by itself before its stop
\* had completed; its event passed the listener, which invoked the
\* callback that had replaced page 1's, and page 2 is still displayed.
C26_Witness ==
    /\ hist.speaks = 1 /\ ui.autoSpeaking
    /\ hist.navs = 1 /\ pageNumber = 2
    /\ hist.finishes = 1 /\ hist.finishedPage = 1
    /\ hist.lastFinish.passes = 1
    /\ tts.callback = NoopCallback

(***************************************************************************)
(* Claims about the sequence of auto-reading, checked under SpecRead.      *)
(***************************************************************************)
\* The step in which the readiness effect calls handleSpeak: the readiness
\* flag turns true and TtsService.speak is called.
AutoSpeakStep ==
    /\ hist'.speaks = hist.speaks + 1
    /\ ~ui.ready /\ ui'.ready

\* C21: once a narration has ended by itself, the narration that the
\* readiness effect starts for the page that is then displayed is given
\* the text of that page: the text shown was written by that page's run.
C21_AutoReadNarratesTheNewPage ==
    [][(AutoSpeakStep /\ hist.finishes > 0)
         => /\ ui'.textPage = pageNumber'
            /\ ui'.extractedText \in TextsOfPage(pageNumber')]_vars

(***************************************************************************)
(* Claims about reasoning markup, checked under SpecPipe.                  *)
(***************************************************************************)
\* The texts of the model that carry a reasoning block.
MarkedTexts ==
    {ThinkBlock} \cup {ProviderReply(t) : t \in UNION {TextsOfPage(p) : p \in Pages}}

ForcedResult(k) ==
    IF ocrCalls[tasks[k].call].outcome = "text" THEN ocrCalls[tasks[k].call].result
    ELSE NoText

====
